---- MODULE Spec2Model ----
(***************************************************************************)
(* Overthinker Guide (src/overthinker.py): the session controller of the   *)
(* outcome tree, its undo history, the tree primitives and the generator   *)
(* client.                                                                 *)
(*                                                                         *)
(* Python values are modelled as follows.  A dict is a record (the empty   *)
(* dict is the record with empty domain); None is the record None; a       *)
(* string that the code inspects (a path) is the sequence of its           *)
(* characters, and the None path is the empty sequence: line 329 lets only *)
(* non-empty paths in, so None never equals a clicked path.  deepcopy is   *)
(* a copy of the value.                                                    *)
(***************************************************************************)
EXTENDS Integers, Sequences, FiniteSets, TLC

VARIABLES
    current_tree,       \* st.session_state.current_tree
    history,            \* st.session_state.history
    user_scenario,      \* st.session_state.user_scenario
    last_clicked_path,  \* st.session_state.last_clicked_path
    summary,            \* st.session_state.summary
    notice,             \* the st.warning / st.error the last handler surfaced
    api_calls,          \* generate_content calls made by the last handler
    last,               \* history variable: the step just taken
    preExp,             \* history variable: trees before each not-yet-undone expansion
    hist_ids,           \* which object each history entry is; 0 is the current tree's
    origin,             \* SpecSink: history variable, text of the last successful submission
    api_outs,           \* SpecApi: the outcomes the generator will produce
    api_ret,            \* SpecApi: what call_gemini_api returned
    api_n,              \* SpecApi, SpecAwait: generate_content calls made so far
    api_done,           \* SpecApi: call_gemini_api has returned
    in_flight,          \* SpecAwait: generate_content calls issued and not yet ended
    pure_in,            \* SpecTree, SpecDisplay: the arguments drawn
    pure_out,           \* SpecTree: the results of the tree primitives
    display_data,       \* SpecDisplay: the payload handed to st_echarts
    passes,             \* SpecDisplay: display passes run so far
    clicked_event,      \* SpecSink: the click event the chart last delivered
    pending,            \* SpecSink: the script run has still to render the chart
    pc                  \* SpecAwait: where the script run stands

vars == <<current_tree, history, user_scenario, last_clicked_path, summary,
          notice, api_calls, last, preExp, hist_ids, origin,
          api_outs, api_ret, api_n, api_done, in_flight, pure_in, pure_out,
          display_data, passes, clicked_event, pending, pc>>

session == <<current_tree, history, user_scenario, last_clicked_path, summary>>
apivars == <<api_outs, api_ret, api_n, api_done, in_flight>>
treevars == <<pure_in, pure_out>>
dispvars == <<display_data, passes>>
sinkvars == <<clicked_event, pending>>

-----------------------------------------------------------------------------
(* Bounds *)

\* longest history the model lets an expansion build
MaxHist == 3
\* distinct paths the nodes of SpecTree's trees draw from
MaxLabels == 2
\* generator outcomes drawn per call (as many as the code can consume)
MaxOuts == 3
\* display passes run in a row
MaxPasses == 2
\* most children a displayed node has
MaxWide == 6

-----------------------------------------------------------------------------
(* Values *)

None == [none |-> TRUE]
EmptyDict == [k \in {} |-> 0]
NoPath == <<>>
ROOT == <<"r", "o", "o", "t">>
BogusPath == <<"9">>

Digit(i) ==
    CASE i = 0 -> "0" [] i = 1 -> "1" [] i = 2 -> "2" [] i = 3 -> "3"
      [] i = 4 -> "4" [] i = 5 -> "5" [] i = 6 -> "6" [] i = 7 -> "7"
      [] i = 8 -> "8" [] OTHER -> "9"

\* the path the prompts ask for: "0","1","2" under the root, "<parent>-<i>" below
ChildPath(parent, i) ==
    IF parent = ROOT THEN <<Digit(i)>> ELSE parent \o <<"-", Digit(i)>>

Leaf(name, path) ==
    [name |-> name, description |-> "d", path |-> path, children |-> <<>>]

\* n children of the node at `parent`, as PROMPT_EXPAND asks for them
Kids(parent, n) == [i \in 1..n |-> Leaf("sub", ChildPath(parent, i - 1))]

\* the tree PROMPT_INITIAL asks for
GoodTree ==
    [name |-> "situation", description |-> "Explore the possible outcomes",
     path |-> ROOT,
     children |-> <<Leaf("Best", <<"0">>), Leaf("Expected", <<"1">>),
                    Leaf("Worst", <<"2">>)>>]

\* a tree the generator may return against the prompt: two children, same path
DupTree ==
    [name |-> "situation", description |-> "Explore the possible outcomes",
     path |-> ROOT,
     children |-> <<Leaf("Best", <<"0">>), Leaf("Worst", <<"0">>)>>]

Texts == {"", "A", "B"}

-----------------------------------------------------------------------------
(* Generator outcomes: an exception, or a response text *)

Exc == [kind |-> "exc", braces |-> FALSE, valid |-> FALSE, obj |-> EmptyDict]
\* braces: re.search(r'\{.*\}') matches; valid: json.loads accepts the match
Text(braces, valid, obj) ==
    [kind |-> "text", braces |-> braces, valid |-> valid, obj |-> obj]

NoJsonText == Text(FALSE, FALSE, EmptyDict)
BadJsonText == Text(TRUE, FALSE, EmptyDict)

\* answers to the initial prompt: as asked for, and against the prompt
\* (root children sharing a path, no summary)
InitialObjs == {[tree |-> GoodTree, summary |-> "S"], [tree |-> DupTree]}

\* how many children an answer to the expansion prompt carries here
KidCounts == {0, 2}

\* answers to the expansion prompt: as asked for, and against the prompt
\* (no children at all, two children sharing a path)
ExpandObjs(p) ==
    {[children |-> Kids(p, n)] : n \in KidCounts}
      \cup {[children |-> <<Leaf("sub", ChildPath(p, 0)), Leaf("sub", ChildPath(p, 0))>>]}

\* objects that parse but lack the key the controller needs
KeylessObjs == {EmptyDict, [summary |-> "S"]}

InitialTexts ==
    {NoJsonText, BadJsonText} \cup {Text(TRUE, TRUE, o) : o \in InitialObjs \cup KeylessObjs}

ExpandTexts(p) ==
    {NoJsonText, BadJsonText} \cup {Text(TRUE, TRUE, o) : o \in ExpandObjs(p) \cup KeylessObjs}

\* the generator answers with text t at once or after raising once, or it
\* raises every time
OutSeqs(texts) ==
    {[i \in 1..MaxOuts |-> IF i <= k THEN Exc ELSE t] : k \in {0, 1, MaxOuts}, t \in texts}

-----------------------------------------------------------------------------
(* Helper functions of the source *)

robust_json_parser(text) ==
    IF ~text.braces THEN None
    ELSE IF text.valid THEN text.obj ELSE None

retries == 2

\* the retry test with one attempt too many
more_attempts_one_extra(attempt) == attempt < retries + 1
\* lines 145 and 150: after a raising attempt (0-based) another one follows
more_attempts(attempt) == attempt < retries

\* api_loop retrying also when the response text does not parse
RECURSIVE api_loop_retry_unparsed(_, _)
api_loop_retry_unparsed(outs, attempt) ==
    IF attempt > retries
    THEN [ret |-> None, calls |-> attempt]
    ELSE LET o == outs[attempt + 1]
             parsed == IF o.kind = "exc" THEN None ELSE robust_json_parser(o)
         IN  IF parsed = None
             THEN IF attempt >= retries
                  THEN [ret |-> None, calls |-> attempt + 1]
                  ELSE api_loop_retry_unparsed(outs, attempt + 1)
             ELSE [ret |-> parsed, calls |-> attempt + 1]

\* lines 145-154: the attempt loop of call_gemini_api
RECURSIVE api_loop(_, _)
api_loop(outs, attempt) ==
    IF attempt > retries
    THEN [ret |-> None, calls |-> attempt]
    ELSE LET o == outs[attempt + 1] IN
         IF o.kind = "exc"
         THEN IF attempt >= retries
              THEN [ret |-> None, calls |-> attempt + 1]
              ELSE api_loop(outs, attempt + 1)
         ELSE [ret |-> robust_json_parser(o), calls |-> attempt + 1]

call_gemini_api(outs) == api_loop(outs, 0)

\* Python's `data and key in data`
HasKey(data, key) == data # None /\ DOMAIN data # {} /\ key \in DOMAIN data

\* find_and_update_node without the early return: every match is updated
RECURSIVE find_and_update_node_all(_, _, _)
find_and_update_node_all(tree, target_path, new_children) ==
    IF tree.path = target_path
    THEN [found |-> TRUE, tree |-> [tree EXCEPT !.children = new_children]]
    ELSE LET rs == [i \in 1..Len(tree.children) |->
                      find_and_update_node_all(tree.children[i], target_path,
                                               new_children)]
         IN  [found |-> \E i \in 1..Len(tree.children) : rs[i].found,
              tree |-> [tree EXCEPT
                          !.children = [i \in 1..Len(tree.children) |-> rs[i].tree]]]

RECURSIVE find_and_update_node(_, _, _), update_in_children(_, _, _)
find_and_update_node(tree, target_path, new_children) ==
    IF tree.path = target_path
    THEN [found |-> TRUE, tree |-> [tree EXCEPT !.children = new_children]]
    ELSE LET r == update_in_children(tree.children, target_path, new_children)
         IN  [found |-> r.found, tree |-> [tree EXCEPT !.children = r.kids]]

update_in_children(kids, target_path, new_children) ==
    IF kids = <<>>
    THEN [found |-> FALSE, kids |-> <<>>]
    ELSE LET r == find_and_update_node(Head(kids), target_path, new_children) IN
         IF r.found
         THEN [found |-> TRUE, kids |-> <<r.tree>> \o Tail(kids)]
         ELSE LET rest == update_in_children(Tail(kids), target_path, new_children)
              IN  [found |-> rest.found, kids |-> <<Head(kids)>> \o rest.kids]

\* find_node_by_path searching the children before testing the node itself
RECURSIVE find_node_by_path_children_first(_, _), find_in_children_first(_, _)
find_in_children_first(kids, path) ==
    IF kids = <<>>
    THEN None
    ELSE LET found == find_node_by_path_children_first(Head(kids), path) IN
         IF found # None THEN found ELSE find_in_children_first(Tail(kids), path)

find_node_by_path_children_first(tree, path) ==
    LET found == find_in_children_first(tree.children, path) IN
    IF found # None THEN found
    ELSE IF tree.path = path THEN tree ELSE None

RECURSIVE find_node_by_path(_, _), find_in_children(_, _)
find_node_by_path(tree, path) ==
    IF tree.path = path THEN tree ELSE find_in_children(tree.children, path)

find_in_children(kids, path) ==
    IF kids = <<>>
    THEN None
    ELSE LET found == find_node_by_path(Head(kids), path) IN
         IF found # None THEN found ELSE find_in_children(Tail(kids), path)

-----------------------------------------------------------------------------
(* Visual state: prepare_tree_for_display *)

\* str.startswith
startswith(s, prefix) ==
    Len(prefix) <= Len(s) /\ SubSeq(s, 1, Len(prefix)) = prefix

\* rec[key] = val on a dict
Put(rec, key, val) ==
    [k \in DOMAIN rec \cup {key} |-> IF k = key THEN val ELSE rec[k]]

\* description.replace('\n', ' ') on the descriptions the model uses
replace_newlines(desc) ==
    CASE desc = "two\nlines" -> "two lines"
      [] desc = "a\nb\nc" -> "a b c"
      [] OTHER -> desc

\* the first child whose path the clicked path starts with; None when the
\* clicked path is unset, no child qualifies, or that child's path is empty
active_child_path(kids, lcp) ==
    LET on == {i \in 1..Len(kids) : startswith(lcp, kids[i].path)} IN
    IF lcp = NoPath \/ on = {}
    THEN NoPath
    ELSE kids[CHOOSE i \in on : \A j \in on : i <= j].path

\* rule 2 with the four newest children collapsed instead of kept
collapse_oldest_keeps_first(i, n) == i >= 4
\* rule 2, line 200: i is the 0-based index among n children
collapse_oldest(i, n) == i < n - 4

RECURSIVE _collapse_nodes_recursively(_, _)
_collapse_nodes_recursively(node, lcp) ==
    IF node.children = <<>>
    THEN node
    ELSE LET kids == node.children
             n == Len(kids)
             active == active_child_path(kids, lcp)
             flag(i) == IF active # NoPath THEN kids[i].path # active
                        ELSE IF n > 4 THEN collapse_oldest(i - 1, n)
                        ELSE FALSE
         IN  [node EXCEPT !.children =
                [i \in 1..n |->
                   _collapse_nodes_recursively(Put(kids[i], "collapsed", flag(i)), lcp)]]

Green == "#2ecc71"
Red == "#e74c3c"
Orange == "#f39c12"
Blue == "#3498db"

colour_of(path) ==
    IF path = <<"0">> \/ startswith(path, <<"0", "-">>) THEN Green
    ELSE IF path = <<"2">> \/ startswith(path, <<"2", "-">>) THEN Red
    ELSE IF path = <<"1">> \/ startswith(path, <<"1", "-">>) THEN Orange
    ELSE Blue

is_collapsed(node) == "collapsed" \in DOMAIN node /\ node.collapsed

RECURSIVE _apply_visual_formatting(_)
_apply_visual_formatting(node) ==
    LET label == IF is_collapsed(node)
                 THEN "..."
                 ELSE node.name \o ": " \o replace_newlines(node.description)
        styled == Put(Put(node, "name", label), "itemStyle", [color |-> colour_of(node.path)])
    IN  [styled EXCEPT !.children =
           [i \in 1..Len(node.children) |-> _apply_visual_formatting(node.children[i])]]

prepare_tree_for_display(node, lcp) ==
    _apply_visual_formatting(_collapse_nodes_recursively(node, lcp))

\* the display pass run on the session's tree itself
display_pass_in_place(tree, lcp) ==
    LET shown == _apply_visual_formatting(_collapse_nodes_recursively(tree, lcp)) IN
    [current_tree |-> shown, display_data |-> shown]

\* lines 318-319: the pass runs on a deep copy of the session's tree
display_pass(tree, lcp) ==
    [current_tree |-> tree, display_data |-> prepare_tree_for_display(tree, lcp)]

-----------------------------------------------------------------------------
(* Tree measures used to enumerate clicks *)

RECURSIVE PathsOf(_), PathsOfKids(_)
PathsOf(tree) == {tree.path} \cup PathsOfKids(tree.children)
PathsOfKids(kids) ==
    IF kids = <<>> THEN {} ELSE PathsOf(Head(kids)) \cup PathsOfKids(Tail(kids))

\* what the chart can deliver: a rendered node's path, or a stale one
ClickPaths(tree) == IF tree = None THEN {} ELSE PathsOf(tree) \cup {BogusPath}

Step(op, result, path, kids) ==
    [op |-> op, result |-> result, path |-> path, kids |-> kids]

\* the step `last` records
SubmitOk(l) == l.op = "submit" /\ l.result = "ok"
SubmitFailed(l) == l.op = "submit" /\ l.result = "failed"
ExpandOk(l) == l.op = "click" /\ l.result = "ok"
ExpandFailed(l) == l.op = "click" /\ l.result = "failed"
Refused(l) ==
    \/ l.op = "submit" /\ l.result \in {"failed", "rejected"}
    \/ l.op = "click" /\ l.result \in {"failed", "same", "notfound", "display"}
Displaying == current_tree # None

-----------------------------------------------------------------------------
(* Session controller *)

\* the variables of the other specifications, at rest
TreeIdle == pure_in = None /\ pure_out = None
DispIdle == display_data = None /\ passes = 0
SinkIdle == clicked_event = NoPath /\ pending = FALSE

\* copy.deepcopy: the copy is a new object
deepcopy_shares(obj, fresh) == obj

deepcopy(obj, fresh) == fresh

\* object identities renamed: 0 for the current tree's object c, otherwise
\* the index of the first history entry holding the same object
Canon(c, ids) ==
    [i \in 1..Len(ids) |->
       IF ids[i] = c THEN 0
       ELSE CHOOSE j \in 1..i : ids[j] = ids[i] /\ \A k \in 1..(j - 1) : ids[k] # ids[i]]

Init ==
    /\ current_tree = None
    /\ history = <<>>
    /\ user_scenario = ""
    /\ last_clicked_path = NoPath
    /\ summary = ""
    /\ notice = "none"
    /\ api_calls = 0
    /\ last = Step("init", "ok", NoPath, <<>>)
    /\ preExp = <<>>
    /\ hist_ids = <<>>
    /\ origin = ""
    /\ api_outs = [i \in 1..MaxOuts |-> Exc]
    /\ api_ret = None
    /\ api_n = 0
    /\ api_done = TRUE
    /\ in_flight = 0
    /\ TreeIdle /\ DispIdle /\ SinkIdle /\ pc = "idle"

\* analyze_result with the failure branch also dropping the snapshots
analyze_result_clears_history(ai_data, tree, hist, summ, lcp) ==
    IF HasKey(ai_data, "tree")
    THEN [ok |-> TRUE,
          current_tree |-> ai_data.tree,
          history |-> <<ai_data.tree>>,
          summary |-> IF "summary" \in DOMAIN ai_data THEN ai_data.summary ELSE "",
          last_clicked_path |-> NoPath]
    ELSE [ok |-> FALSE,
          current_tree |-> None,
          history |-> <<>>,
          summary |-> summ,
          last_clicked_path |-> lcp]

\* lines 295-302: what the Analyze handler does with the generator's answer
analyze_result(ai_data, tree, hist, summ, lcp) ==
    IF HasKey(ai_data, "tree")
    THEN [ok |-> TRUE,
          current_tree |-> ai_data.tree,
          history |-> <<ai_data.tree>>,
          summary |-> IF "summary" \in DOMAIN ai_data THEN ai_data.summary ELSE "",
          last_clicked_path |-> NoPath]
    ELSE [ok |-> FALSE,
          current_tree |-> None,
          history |-> hist,
          summary |-> summ,
          last_clicked_path |-> lcp]

\* "Analyze Outcomes" pressed with the text area holding `text`
SubmitHandler(text, outs) ==
    /\ IF text = ""
       THEN /\ notice' = "validation"
            /\ api_calls' = 0
            /\ last' = Step("submit", "rejected", NoPath, <<>>)
            /\ UNCHANGED <<session, preExp, hist_ids>>
       ELSE LET r == call_gemini_api(outs)
                a == analyze_result(r.ret, current_tree, history, summary,
                                    last_clicked_path)
            IN  /\ user_scenario' = text
                /\ api_calls' = r.calls
                /\ current_tree' = a.current_tree
                /\ history' = a.history
                /\ summary' = a.summary
                /\ last_clicked_path' = a.last_clicked_path
                /\ notice' = IF a.ok THEN "none" ELSE "analysis_failed"
                /\ last' = Step("submit", IF a.ok THEN "ok" ELSE "failed", NoPath, <<>>)
                /\ preExp' = IF a.ok THEN <<>> ELSE preExp
                /\ hist_ids' = IF a.ok THEN Canon(0, <<deepcopy(0, 1)>>)
                                       ELSE Canon(-1, hist_ids)

SubmitScenario(text, outs) ==
    /\ SubmitHandler(text, outs)
    /\ UNCHANGED <<origin, apivars, treevars, dispvars, sinkvars, pc>>

\* line 305: the Go Back button is rendered
go_back_enabled(hist) == Len(hist) > 1

\* lines 307-308
go_back(hist) ==
    LET popped == SubSeq(hist, 1, Len(hist) - 1)
    IN  [history |-> popped, current_tree |-> popped[Len(popped)]]

\* "Go Back" pressed
GoBackHandler ==
    /\ go_back_enabled(history)
    /\ LET g == go_back(history) IN
       /\ history' = g.history
       /\ current_tree' = g.current_tree
    /\ last_clicked_path' = NoPath
    /\ notice' = "none"
    /\ api_calls' = 0
    /\ last' = Step("goBack", "ok", NoPath, <<>>)
    /\ preExp' = IF preExp = <<>> THEN <<>> ELSE SubSeq(preExp, 1, Len(preExp) - 1)
    /\ LET ids == SubSeq(hist_ids, 1, Len(hist_ids) - 1)
       IN  hist_ids' = Canon(deepcopy(ids[Len(ids)], -1), ids)
    /\ UNCHANGED <<user_scenario, summary>>

GoBack ==
    /\ GoBackHandler
    /\ UNCHANGED <<origin, apivars, treevars, dispvars, sinkvars, pc>>

\* needs_expansion without the test for existing children
needs_expansion_any(node_in_state) == node_in_state # None

\* line 336: the clicked node is a leaf awaiting generation
needs_expansion(node_in_state) ==
    node_in_state # None /\ node_in_state.children = <<>>

\* expand_result with the snapshot pushed before the answer is checked
expand_result_push_first(expanded_data, tree, hist, clicked_path) ==
    IF HasKey(expanded_data, "children")
    THEN [ok |-> TRUE,
          history |-> Append(hist, tree),
          current_tree |-> find_and_update_node(tree, clicked_path,
                                                expanded_data.children).tree]
    ELSE [ok |-> FALSE, history |-> Append(hist, tree), current_tree |-> tree]

\* lines 346-351: what the click handler does with the generator's answer
expand_result(expanded_data, tree, hist, clicked_path) ==
    IF HasKey(expanded_data, "children")
    THEN [ok |-> TRUE,
          history |-> Append(hist, tree),
          current_tree |-> find_and_update_node(tree, clicked_path,
                                                expanded_data.children).tree]
    ELSE [ok |-> FALSE, history |-> hist, current_tree |-> tree]

\* line 332: the event is not the one already handled
is_new_click_always(clicked_path, lcp) == TRUE

is_new_click(clicked_path, lcp) == clicked_path # lcp

\* lines 329-351: the click event carrying clicked_path is handled
ClickHandler(clicked_path, outs) ==
    /\ current_tree # None
    /\ Len(history) < MaxHist
    /\ clicked_path # NoPath
    /\ IF ~is_new_click(clicked_path, last_clicked_path)
       THEN /\ notice' = "none"
            /\ api_calls' = 0
            /\ last' = Step("click", "same", clicked_path, <<>>)
            /\ UNCHANGED <<session, preExp, hist_ids>>
       ELSE LET node_in_state == find_node_by_path(current_tree, clicked_path) IN
            /\ last_clicked_path' = clicked_path
            /\ UNCHANGED <<user_scenario, summary>>
            /\ IF needs_expansion(node_in_state)
               THEN LET r == call_gemini_api(outs)
                        e == expand_result(r.ret, current_tree, history, clicked_path)
                        ids == IF e.ok
                               THEN Append(hist_ids, deepcopy(0, Len(hist_ids) + 1))
                               ELSE hist_ids
                    IN  /\ api_calls' = r.calls
                        /\ hist_ids' = Canon(0, ids)
                        \* line 348 updates the object in place: every
                        \* history entry that is that object changes with it
                        /\ history' = [i \in 1..Len(e.history) |->
                                         IF i <= Len(ids) /\ ids[i] = 0 THEN e.current_tree
                                                       ELSE e.history[i]]
                        /\ current_tree' = e.current_tree
                        /\ notice' = IF e.ok THEN "none" ELSE "expand_failed"
                        /\ last' = IF e.ok
                                   THEN Step("click", "ok", clicked_path, r.ret.children)
                                   ELSE Step("click", "failed", clicked_path, <<>>)
                        /\ preExp' = IF e.ok THEN Append(preExp, current_tree) ELSE preExp
               ELSE /\ notice' = "none"
                    /\ api_calls' = 0
                    /\ last' = Step("click",
                                    IF node_in_state = None THEN "notfound" ELSE "display",
                                    clicked_path, <<>>)
                    /\ UNCHANGED <<current_tree, history, preExp, hist_ids>>

\* the user clicks a node of the chart
ClickNode(clicked_path, outs) ==
    /\ ClickHandler(clicked_path, outs)
    /\ UNCHANGED <<origin, apivars, treevars, dispvars, sinkvars, pc>>

Next ==
    \/ \E text \in Texts :
          \E outs \in IF text = "" THEN {[i \in 1..MaxOuts |-> Exc]} ELSE OutSeqs(InitialTexts) :
             SubmitScenario(text, outs)
    \/ GoBack
    \/ \E p \in ClickPaths(current_tree) :
          \E outs \in OutSeqs(ExpandTexts(p)) : ClickNode(p, outs)

Spec == Init /\ [][Next]_vars

-----------------------------------------------------------------------------
(* The generator client on its own: every sequence of attempt outcomes *)

ApiTexts ==
    {NoJsonText, BadJsonText, Text(TRUE, TRUE, [tree |-> GoodTree, summary |-> "S"]),
     Text(TRUE, TRUE, [summary |-> "S"]), Text(TRUE, TRUE, EmptyDict)}

ApiOutcomes == {Exc} \cup ApiTexts

InitApi ==
    /\ current_tree = None
    /\ history = <<>>
    /\ user_scenario = ""
    /\ last_clicked_path = NoPath
    /\ summary = ""
    /\ notice = "none"
    /\ api_calls = 0
    /\ last = Step("init", "ok", NoPath, <<>>)
    /\ preExp = <<>>
    /\ hist_ids = <<>>
    /\ origin = ""
    /\ TreeIdle /\ DispIdle /\ SinkIdle /\ pc = "idle"
    /\ api_outs \in [1..MaxOuts -> ApiOutcomes]
    /\ api_ret = None
    /\ api_n = 0
    /\ api_done = FALSE
    /\ in_flight = 0

ApiCall ==
    /\ ~api_done
    /\ LET r == call_gemini_api(api_outs) IN
       /\ api_ret' = r.ret
       /\ api_n' = r.calls
    /\ api_done' = TRUE
    /\ UNCHANGED <<session, notice, api_calls, last, preExp, hist_ids, origin,
                   api_outs, in_flight, treevars, dispvars, sinkvars, pc>>

NextApi == ApiCall

SpecApi == InitApi /\ [][NextApi]_vars

-----------------------------------------------------------------------------
(* The tree primitives on their own: every tree of a bounded family, with  *)
(* paths repeated among siblings, between a node and its descendants and   *)
(* across subtrees.                                                        *)

TreeLabels == {<<Digit(i)>> : i \in 0..(MaxLabels - 1)}

\* children per node in the family
Widths == 0..2

SeqsOver(S) == UNION {[1..n -> S] : n \in Widths}

Node(path, kids) ==
    [name |-> "n", description |-> "d", path |-> path, children |-> kids]

LeafNodes == {Node(p, <<>>) : p \in TreeLabels}
MidNodes == {Node(p, ks) : p \in TreeLabels, ks \in SeqsOver(LeafNodes)}
FamilyTrees == {Node(ROOT, ks) : ks \in SeqsOver(MidNodes)}

\* paths looked up: a label, the root's, and one no node carries
TargetPaths == TreeLabels \cup {ROOT, BogusPath}

\* child lists installed: none, one child carrying the target path itself,
\* and the children the expansion prompt asks for
NewChildren(p) == {<<>>, <<Node(p, <<>>)>>, Kids(p, 2)}

InitTree ==
    /\ current_tree = None
    /\ history = <<>>
    /\ user_scenario = ""
    /\ last_clicked_path = NoPath
    /\ summary = ""
    /\ notice = "none"
    /\ api_calls = 0
    /\ last = Step("init", "ok", NoPath, <<>>)
    /\ preExp = <<>>
    /\ hist_ids = <<>>
    /\ origin = ""
    /\ api_outs = [i \in 1..MaxOuts |-> Exc]
    /\ api_ret = None
    /\ api_n = 0
    /\ api_done = TRUE
    /\ in_flight = 0
    /\ DispIdle /\ SinkIdle /\ pc = "idle"
    /\ \E t \in FamilyTrees, p \in TargetPaths :
          \E c \in NewChildren(p) : pure_in = [tree |-> t, path |-> p, kids |-> c]
    /\ pure_out = None

\* find_node_by_path, then find_and_update_node, then find_node_by_path
TreeApply ==
    /\ pure_out = None
    /\ LET u == find_and_update_node(pure_in.tree, pure_in.path, pure_in.kids) IN
       pure_out' = [node |-> find_node_by_path(pure_in.tree, pure_in.path),
                    found |-> u.found,
                    tree |-> u.tree,
                    node_after |-> find_node_by_path(u.tree, pure_in.path)]
    /\ UNCHANGED <<session, notice, api_calls, last, preExp, hist_ids, origin,
                   apivars, pure_in, dispvars, sinkvars, pc>>

NextTree == TreeApply

SpecTree == InitTree /\ [][NextTree]_vars

-----------------------------------------------------------------------------
(* The display pass on its own: trees of up to MaxWide children, one of    *)
(* them expanded, and trees whose paths the generator got wrong.           *)

Described(name, desc, path, kids) ==
    [name |-> name, description |-> desc, path |-> path, children |-> kids]

\* grandchildren counts
ExpandedWidths == {2, 5}

\* root with n children, child k of them (0: none) has m children
WideTree(n, k, m) ==
    Described("situation", "two\nlines", ROOT,
      [i \in 1..n |->
         Described("c", "a\nb\nc", <<Digit(i - 1)>>,
                   IF i = k THEN Kids(<<Digit(i - 1)>>, m) ELSE <<>>)])

WideTrees ==
    {WideTree(n, 0, 0) : n \in 0..MaxWide}
      \cup UNION {{WideTree(n, k, m) : k \in 1..n, m \in ExpandedWidths} : n \in 1..MaxWide}

\* paths that break the prompts' contract: a repeated path, a sibling whose
\* path extends another's, an empty path
OddTrees ==
    {Described("situation", "d", ROOT, ks) : ks \in
       {<<Leaf("a", <<"0">>), Leaf("b", <<"0">>), Leaf("c", <<"1">>)>>,
        <<Leaf("a", <<"1">>), Leaf("b", <<"1", "-", "0">>), Leaf("c", <<"2">>)>>,
        <<Leaf("a", <<"1", "-", "0">>), Leaf("b", <<"1">>)>>,
        <<Leaf("a", NoPath), Leaf("b", <<"0">>)>>,
        <<Leaf("a", <<"0">>), Leaf("b", NoPath), Leaf("c", <<"1">>), Leaf("d", <<"2">>),
          Leaf("e", <<"3">>)>>}}

DisplayTrees == WideTrees \cup OddTrees

InitDisplay ==
    /\ \E t \in DisplayTrees :
         /\ current_tree = t
         /\ history = <<t>>
         /\ hist_ids = <<1>>
         /\ \E p \in (PathsOf(t) \cup {NoPath, BogusPath, <<"0", "-", "1", "-", "0">>}) :
              /\ last_clicked_path = p
              /\ pure_in = [tree |-> t, path |-> p]
    /\ user_scenario = "A"
    /\ summary = ""
    /\ notice = "none"
    /\ api_calls = 0
    /\ last = Step("init", "ok", NoPath, <<>>)
    /\ preExp = <<>>
    /\ origin = ""
    /\ api_outs = [i \in 1..MaxOuts |-> Exc]
    /\ api_ret = None
    /\ api_n = 0
    /\ api_done = TRUE
    /\ in_flight = 0
    /\ pure_out = None
    /\ DispIdle /\ SinkIdle /\ pc = "idle"

\* one script run reaching lines 314-320; pure_out keeps the previous payload
DisplayPass ==
    /\ current_tree # None
    /\ passes < MaxPasses
    /\ LET r == display_pass(current_tree, last_clicked_path) IN
         /\ current_tree' = r.current_tree
         /\ display_data' = r.display_data
    /\ pure_out' = display_data
    /\ passes' = passes + 1
    /\ UNCHANGED <<history, user_scenario, last_clicked_path, summary, notice,
                   api_calls, last, preExp, hist_ids, origin, apivars, pure_in,
                   sinkvars, pc>>

NextDisplay == DisplayPass

SpecDisplay == InitDisplay /\ [][NextDisplay]_vars

-----------------------------------------------------------------------------
(* The controller with the chart's click event.  st_echarts returns the    *)
(* last click event on every script run that renders the chart, until the  *)
(* user clicks again.  A script run that renders the chart after a button  *)
(* handler, or after st.rerun(), is the step Redeliver; no user action is  *)
(* taken while that run is pending.                                        *)

\* the user clicks a node of the displayed chart: a run with no button
\* pressed, the event handled at lines 329-351, st.rerun() at line 349
UserClick(clicked_path, outs) ==
    /\ ~pending
    /\ ClickHandler(clicked_path, outs)
    /\ clicked_event' = clicked_path
    /\ pending' = ExpandOk(last')
    /\ UNCHANGED <<origin, apivars, treevars, dispvars, pc>>

\* "Analyze Outcomes" pressed: lines 287-302, then the same run goes on to
\* the display block
SinkSubmit(text, outs) ==
    /\ ~pending
    /\ SubmitHandler(text, outs)
    /\ origin' = IF SubmitOk(last') THEN text ELSE origin
    /\ pending' = TRUE
    /\ UNCHANGED <<clicked_event, apivars, treevars, dispvars, pc>>

\* "Go Back" pressed: lines 304-310 end in st.rerun()
SinkGoBack ==
    /\ ~pending
    /\ GoBackHandler
    /\ pending' = TRUE
    /\ UNCHANGED <<clicked_event, origin, apivars, treevars, dispvars, pc>>

\* lines 314-351 of a run the user did not click in: the chart, if there is
\* a tree, hands back the event it holds; with no tree the chart is not
\* rendered and the component may or may not keep its event
Redeliver(outs) ==
    /\ pending
    /\ IF current_tree # None /\ clicked_event # NoPath
       THEN /\ ClickHandler(clicked_event, outs)
            /\ pending' = ExpandOk(last')
            /\ UNCHANGED clicked_event
       ELSE /\ notice' = notice
            /\ api_calls' = 0
            /\ last' = Step("render", "skip", NoPath, <<>>)
            /\ pending' = FALSE
            /\ clicked_event' \in IF current_tree = None
                                  THEN {clicked_event, NoPath}
                                  ELSE {clicked_event}
            /\ UNCHANGED <<session, preExp, hist_ids>>
    /\ UNCHANGED <<origin, apivars, treevars, dispvars, pc>>

NextSink ==
    \/ \E text \in Texts :
          \E outs \in IF text = "" THEN {[i \in 1..MaxOuts |-> Exc]} ELSE OutSeqs(InitialTexts) :
             SinkSubmit(text, outs)
    \/ SinkGoBack
    \/ \E p \in ClickPaths(current_tree) \ {BogusPath} :
          \E outs \in OutSeqs(ExpandTexts(p)) : UserClick(p, outs)
    \/ \E outs \in OutSeqs(ExpandTexts(clicked_event)) : Redeliver(outs)

SpecSink == Init /\ [][NextSink]_vars

-----------------------------------------------------------------------------
(* The controller in small steps: a handler that calls the generator stays *)
(* in its spinner block (Awaiting Initial, Awaiting Expansion) while the   *)
(* attempts of call_gemini_api are issued and end one by one.              *)

Awaiting == pc # "idle"

\* "Analyze Outcomes" pressed: lines 287-293, up to the call
AwaitSubmit(text) ==
    /\ pc = "idle"
    /\ IF text = ""
       THEN /\ notice' = "validation"
            /\ api_calls' = 0
            /\ last' = Step("submit", "rejected", NoPath, <<>>)
            /\ UNCHANGED <<user_scenario, api_n, pc>>
       ELSE /\ user_scenario' = text
            /\ pc' = "AwaitingInitial"
            /\ api_n' = 0
            /\ last' = Step("submit", "begin", NoPath, <<>>)
            /\ UNCHANGED <<notice, api_calls>>
    /\ UNCHANGED <<current_tree, history, last_clicked_path, summary, preExp,
                   hist_ids, origin, api_outs, api_ret, api_done, in_flight,
                   treevars, dispvars, sinkvars>>

\* "Go Back" pressed
AwaitGoBack ==
    /\ pc = "idle"
    /\ GoBackHandler
    /\ UNCHANGED <<origin, apivars, treevars, dispvars, sinkvars, pc>>

\* a node clicked: lines 329-344, up to the call
AwaitClick(clicked_path) ==
    /\ pc = "idle"
    /\ current_tree # None
    /\ Len(history) < MaxHist
    /\ clicked_path # NoPath
    /\ IF ~is_new_click(clicked_path, last_clicked_path)
       THEN /\ last' = Step("click", "same", clicked_path, <<>>)
            /\ UNCHANGED <<last_clicked_path, api_n, pc>>
       ELSE LET node_in_state == find_node_by_path(current_tree, clicked_path) IN
            /\ last_clicked_path' = clicked_path
            /\ IF needs_expansion(node_in_state)
               THEN /\ pc' = "AwaitingExpansion"
                    /\ api_n' = 0
                    /\ last' = Step("click", "begin", clicked_path, <<>>)
               ELSE /\ last' = Step("click",
                                    IF node_in_state = None THEN "notfound" ELSE "display",
                                    clicked_path, <<>>)
                    /\ UNCHANGED <<api_n, pc>>
    /\ UNCHANGED <<current_tree, history, user_scenario, summary, notice,
                   api_calls, preExp, hist_ids, origin, api_outs, api_ret,
                   api_done, in_flight, treevars, dispvars, sinkvars>>

\* scenario texts submitted: the empty one and one other
AwaitTexts == {"", "A"}

AwaitedOp == IF pc = "AwaitingInitial" THEN "submit" ELSE "click"

\* line 147: model.generate_content(prompt) is called
IssueAttempt ==
    /\ Awaiting
    /\ in_flight = 0
    /\ in_flight' = in_flight + 1
    /\ api_n' = api_n + 1
    /\ last' = Step(AwaitedOp, "attempt", last.path, <<>>)
    /\ UNCHANGED <<session, notice, api_calls, preExp, hist_ids, origin,
                   api_outs, api_ret, api_done, treevars, dispvars, sinkvars, pc>>

\* lines 295-302 with what call_gemini_api returned
FinishInitial(ai_data) ==
    LET a == analyze_result(ai_data, current_tree, history, summary,
                            last_clicked_path)
    IN  /\ current_tree' = a.current_tree
        /\ history' = a.history
        /\ summary' = a.summary
        /\ last_clicked_path' = a.last_clicked_path
        /\ notice' = IF a.ok THEN "none" ELSE "analysis_failed"
        /\ last' = Step("submit", IF a.ok THEN "ok" ELSE "failed", NoPath, <<>>)
        /\ preExp' = IF a.ok THEN <<>> ELSE preExp
        /\ hist_ids' = IF a.ok THEN Canon(0, <<deepcopy(0, 1)>>)
                               ELSE Canon(-1, hist_ids)
        /\ UNCHANGED user_scenario

\* lines 346-351 with what call_gemini_api returned
FinishExpansion(expanded_data) ==
    LET clicked_path == last_clicked_path
        e == expand_result(expanded_data, current_tree, history, clicked_path)
        ids == IF e.ok THEN Append(hist_ids, deepcopy(0, Len(hist_ids) + 1))
                       ELSE hist_ids
    IN  /\ hist_ids' = Canon(0, ids)
        /\ history' = [i \in 1..Len(e.history) |->
                         IF i <= Len(ids) /\ ids[i] = 0 THEN e.current_tree
                                                       ELSE e.history[i]]
        /\ current_tree' = e.current_tree
        /\ notice' = IF e.ok THEN "none" ELSE "expand_failed"
        /\ last' = IF e.ok
                   THEN Step("click", "ok", clicked_path, expanded_data.children)
                   ELSE Step("click", "failed", clicked_path, <<>>)
        /\ preExp' = IF e.ok THEN Append(preExp, current_tree) ELSE preExp
        /\ UNCHANGED <<user_scenario, summary, last_clicked_path>>

\* the attempt ends: with a response (line 148) or an exception (149-153)
AttemptEnds(out) ==
    /\ Awaiting
    /\ in_flight > 0
    /\ in_flight' = in_flight - 1
    /\ IF out.kind = "exc" /\ more_attempts(api_n - 1)
       THEN /\ last' = Step(AwaitedOp, "retry", last.path, <<>>)
            /\ UNCHANGED <<session, notice, api_calls, preExp, hist_ids, pc>>
       ELSE LET ret == IF out.kind = "exc" THEN None ELSE robust_json_parser(out) IN
            /\ IF pc = "AwaitingInitial"
               THEN FinishInitial(ret)
               ELSE FinishExpansion(ret)
            /\ api_calls' = api_n
            /\ pc' = "idle"
    /\ UNCHANGED <<origin, api_outs, api_ret, api_n, api_done, treevars,
                   dispvars, sinkvars>>

AwaitedOutcomes ==
    {Exc} \cup (IF pc = "AwaitingInitial" THEN InitialTexts
                ELSE ExpandTexts(last_clicked_path))

AttemptStep == IssueAttempt \/ \E out \in AwaitedOutcomes : AttemptEnds(out)

NextAwait ==
    \/ \E text \in AwaitTexts : AwaitSubmit(text)
    \/ AwaitGoBack
    \/ \E p \in ClickPaths(current_tree) : AwaitClick(p)
    \/ IssueAttempt
    \/ \E out \in AwaitedOutcomes : AttemptEnds(out)

\* the script runs on, and an attempt issued returns or raises
SpecAwait == Init /\ [][NextAwait]_vars /\ WF_vars(AttemptStep)

-----------------------------------------------------------------------------
(* Properties.  A step is recognised by the value `last` takes in it:      *)
(* every action of Spec writes `last`.                                     *)


\* C1: goBack is a single-step undo: it sets the current tree to the tree
\* as it was immediately before the most recent not-yet-undone successful
\* expansion.
C1_GoBackSingleStep ==
    [][(last'.op = "goBack" /\ Len(history) > 1 /\ preExp # <<>>)
         => current_tree' = preExp[Len(preExp)]]_vars

\* C2: immediately after a mutation of the session (successful submit,
\* successful expansion, goBack) the last history entry equals the current
\* tree.
C2_HistoryTopIsCurrent ==
    (SubmitOk(last) \/ ExpandOk(last) \/ last.op = "goBack")
        => (history # <<>> /\ history[Len(history)] = current_tree)

\* C3: a successful submit sets the history length to 1; otherwise the
\* length grows only in a successful expansion, by one, and shrinks only in
\* a goBack, by one; failed and rejected steps keep it; goBack does not
\* happen while the length is at most 1.
C3_HistoryLength ==
    [][/\ SubmitOk(last') => Len(history') = 1
       /\ (Len(history') > Len(history) /\ ~SubmitOk(last'))
             => (ExpandOk(last') /\ Len(history') = Len(history) + 1)
       /\ (Len(history') < Len(history) /\ ~SubmitOk(last'))
             => (last'.op = "goBack" /\ Len(history') = Len(history) - 1)
       /\ ExpandOk(last') => Len(history') = Len(history) + 1
       /\ last'.op = "goBack" => Len(history') = Len(history) - 1
       /\ Refused(last') => Len(history') = Len(history)
       /\ Len(history) <= 1 => last'.op # "goBack"]_vars

\* a goBack has taken a history of three snapshots to two
C3_Witness == last.op = "goBack" /\ Len(history) = 2

\* C4: a submission with non-empty text from Displaying whose generation
\* fails leaves the current tree, history, summary, scenario text and
\* last-clicked path as they were.
C4_FailedSubmitKeepsSession ==
    [][(SubmitFailed(last') /\ current_tree # None)
         => /\ current_tree' = current_tree
            /\ history' = history
            /\ summary' = summary
            /\ user_scenario' = user_scenario
            /\ last_clicked_path' = last_clicked_path]_vars

\* C5: when the expansion of a clicked leaf fails, the current tree and the
\* history are unchanged, the clicked node is still a leaf, and a failure
\* is surfaced.
C5_FailedExpansionKeepsTree ==
    [][ExpandFailed(last')
         => /\ current_tree' = current_tree
            /\ history' = history
            /\ find_node_by_path(current_tree', last'.path) # None
            /\ find_node_by_path(current_tree', last'.path).children = <<>>
            /\ notice' = "expand_failed"]_vars

\* an expansion failed after the generator raised on all three attempts,
\* in a session that already holds one expansion
C5_Witness ==
    /\ ExpandFailed(last) /\ api_calls = 3 /\ notice = "expand_failed"
    /\ Len(history) = 2 /\ current_tree # None

-----------------------------------------------------------------------------
(* Nodes by position: a position is the sequence of child indices leading  *)
(* to a node; depth-first order is prefix-then-lexicographic order.        *)

RECURSIVE NodeAt(_, _)
NodeAt(tree, pos) ==
    IF pos = <<>> THEN tree ELSE NodeAt(tree.children[Head(pos)], Tail(pos))

RECURSIVE Positions(_)
Positions(tree) ==
    {<<>>} \cup UNION {{<<i>> \o q : q \in Positions(tree.children[i])} :
                         i \in 1..Len(tree.children)}

IsPrefix(a, b) == Len(a) <= Len(b) /\ SubSeq(b, 1, Len(a)) = a

Before(a, b) ==
    \/ IsPrefix(a, b)
    \/ \E i \in 1..Len(a) :
          /\ i <= Len(b)
          /\ SubSeq(a, 1, i - 1) = SubSeq(b, 1, i - 1)
          /\ a[i] < b[i]

Matches(tree, p) == {q \in Positions(tree) : NodeAt(tree, q).path = p}

FirstPos(tree, p) ==
    CHOOSE q \in Matches(tree, p) : \A r \in Matches(tree, p) : Before(q, r)

SameLabel(m, n) ==
    m.name = n.name /\ m.description = n.description /\ m.path = n.path

C7_ExpansionFrame ==
    ExpandOk(last) =>
      LET old == preExp[Len(preExp)]
          p == last.path
          C == last.kids
          pos == FirstPos(old, p)
          below == {q \in Positions(current_tree) : IsPrefix(pos, q) /\ q # pos}
      IN  /\ Len(history) >= 2 /\ history[Len(history)] = old
          /\ find_node_by_path(current_tree, p).children = C
          /\ NodeAt(current_tree, pos).children = C
          /\ Positions(current_tree) \ below = Positions(old)
          /\ \A q \in Positions(old) :
                /\ SameLabel(NodeAt(current_tree, q), NodeAt(old, q))
                /\ q # pos => Len(NodeAt(current_tree, q).children)
                                = Len(NodeAt(old, q).children)
                /\ ~IsPrefix(q, pos) => NodeAt(current_tree, q) = NodeAt(old, q)

\* a leaf whose path occurs twice in the tree has been expanded
C7_Witness ==
    /\ ExpandOk(last) /\ last.kids # <<>> /\ Len(history) = 2
    /\ Cardinality(Matches(current_tree, last.path)) >= 2

RECURSIVE PathsFollowContract(_, _)
PathsFollowContract(node, isRoot) ==
    \A i \in 1..Len(node.children) :
       /\ node.children[i].path =
            IF isRoot THEN <<Digit(i - 1)>> ELSE node.path \o <<"-", Digit(i - 1)>>
       /\ PathsFollowContract(node.children[i], FALSE)

\* C8: in every Displaying state every non-root node's path is its
\* parent's path, "-" and its index among its siblings (the bare index under
\* the root), so all paths of the tree are pairwise distinct.
C8_PathsFollowContract ==
    Displaying =>
      /\ PathsFollowContract(current_tree, TRUE)
      /\ \A q, r \in Positions(current_tree) :
            NodeAt(current_tree, q).path = NodeAt(current_tree, r).path => q = r

\* C9: the current tree has the root sentinel path and exactly 3 root
\* children "0","1","2", and every expanded node below has 2 to 4 children.
C9_SchemaHolds ==
    Displaying =>
      /\ current_tree.path = ROOT
      /\ Len(current_tree.children) = 3
      /\ \A i \in 1..Len(current_tree.children) :
            current_tree.children[i].path = <<Digit(i - 1)>>
      /\ \A q \in Positions(current_tree) :
            (q # <<>> /\ NodeAt(current_tree, q).children # <<>>)
               => Len(NodeAt(current_tree, q).children) \in 2..4

\* C10: a click issues a generation call only when its path differs from
\* the last-clicked path and resolves to a node with empty children; a click
\* on the last-clicked path changes nothing; a click on a node that has
\* children, or on a path that resolves to no node, only records the path.
C10_ClickGuard ==
    [][last'.op = "click" =>
         LET p == last'.path
             node == find_node_by_path(current_tree, p)
         IN  /\ api_calls' > 0 =>
                   (p # last_clicked_path /\ node # None /\ node.children = <<>>)
             /\ p = last_clicked_path => (UNCHANGED session /\ api_calls' = 0)
             /\ (p # last_clicked_path /\ (node = None \/ node.children # <<>>))
                   => /\ current_tree' = current_tree
                      /\ history' = history
                      /\ user_scenario' = user_scenario
                      /\ summary' = summary
                      /\ last_clicked_path' = p
                      /\ api_calls' = 0]_vars

\* an already expanded node was clicked: the path is recorded, no call made
C10_Witness ==
    /\ last.op = "click" /\ Displaying /\ api_calls = 0
    /\ last_clicked_path = last.path
    /\ find_node_by_path(current_tree, last.path) # None
    /\ find_node_by_path(current_tree, last.path).children # <<>>
    /\ Len(history) = 2

\* C11: when some node has path p, updateChildren reports success and
\* findByPath then returns a node whose children are C; findByPath and
\* updateChildren pick the same node, the first in depth-first order, and no
\* other node changes; when no node has path p, findByPath returns
\* not-found, updateChildren reports not-found and the tree is unchanged.
C11_RoundTrip ==
    pure_out # None =>
      LET t == pure_in.tree
          p == pure_in.path
          C == pure_in.kids
      IN  IF Matches(t, p) = {}
          THEN /\ pure_out.node = None
               /\ ~pure_out.found
               /\ pure_out.tree = t
               /\ pure_out.node_after = None
          ELSE LET pos == FirstPos(t, p) IN
               /\ pure_out.found
               /\ pure_out.node = NodeAt(t, pos)
               /\ pure_out.node_after # None
               /\ pure_out.node_after.children = C
               /\ NodeAt(pure_out.tree, pos).children = C
               /\ pure_out.node_after = NodeAt(pure_out.tree, pos)
               /\ \A q \in Positions(t) :
                     ~IsPrefix(pos, q) =>
                        /\ q \in Positions(pure_out.tree)
                        /\ SameLabel(NodeAt(pure_out.tree, q), NodeAt(t, q))
                        /\ ~IsPrefix(q, pos) => NodeAt(pure_out.tree, q) = NodeAt(t, q)

\* the path occurs at a node and again at one of its descendants and in a
\* later subtree; the first of them got the new children
C11_Witness ==
    /\ pure_out # None /\ pure_out.found
    /\ pure_in.kids # <<>>
    /\ Cardinality(Matches(pure_in.tree, pure_in.path)) >= 3
    /\ \E q, r \in Matches(pure_in.tree, pure_in.path) : q # r /\ IsPrefix(q, r)

-----------------------------------------------------------------------------
(* The display pass, node by node: kids are the children of the session's  *)
(* node at a position, shown the children of the payload's node there.     *)

KidsAt(q) == NodeAt(pure_in.tree, q).children
ShownAt(q) == NodeAt(display_data, q).children
OnClickedPath(q) ==
    {i \in 1..Len(KidsAt(q)) : startswith(last_clicked_path, KidsAt(q)[i].path)}
\* rules 2 and 3 for the children at q
OldestCollapsed(q) ==
    LET n == Len(KidsAt(q)) IN
    \A i \in 1..n :
       /\ "collapsed" \in DOMAIN ShownAt(q)[i]
       /\ ShownAt(q)[i].collapsed = (n > 4 /\ i <= n - 4)

\* C12: after any number of display passes the session's current tree and
\* every history entry are what they were before the first pass, with no
\* collapsed flag, colour or rewritten name in them, and a second pass with
\* the same last-clicked path yields the payload the first pass yielded.
C12_DisplayKeepsSession ==
    passes > 0 =>
      /\ current_tree = pure_in.tree
      /\ history = <<pure_in.tree>>
      /\ \A q \in Positions(current_tree) :
            DOMAIN NodeAt(current_tree, q) = {"name", "description", "path", "children"}
      /\ passes >= 2 => display_data = pure_out

\* two passes were run on a tree the pass decorates: a child is collapsed and
\* its label replaced, the root's label carries its flattened description
C12_Witness ==
    /\ passes = MaxPasses
    /\ display_data.name = "situation: two lines"
    /\ \E i \in 1..Len(display_data.children) :
          /\ display_data.children[i].collapsed
          /\ display_data.children[i].name = "..."
          /\ display_data.children[i].itemStyle.color = Orange

\* C13: with a last-clicked path set, a node with exactly one child whose
\* path is a prefix of the clicked path has that child uncollapsed and every
\* sibling collapsed; with no such child or more than one, rules 2/3 decide.
C13_RuleOne ==
    (passes > 0 /\ last_clicked_path # NoPath) =>
      \A q \in Positions(pure_in.tree) :
         KidsAt(q) # <<>> =>
            IF Cardinality(OnClickedPath(q)) = 1
            THEN \A i \in 1..Len(KidsAt(q)) :
                    ShownAt(q)[i].collapsed = (i \notin OnClickedPath(q))
            ELSE OldestCollapsed(q)

\* C14: where no child's path is a prefix of the last-clicked path, or none
\* is set, n > 4 children have exactly the first n-4 collapsed and n <= 4
\* have none collapsed; every node below the root carries a flag, so the
\* pass went into every child, collapsed or not.
C14_RulesTwoThree ==
    passes > 0 =>
      /\ \A q \in Positions(pure_in.tree) :
            (last_clicked_path = NoPath \/ OnClickedPath(q) = {}) => OldestCollapsed(q)
      /\ \A q \in Positions(display_data) :
            (q # <<>>) <=> ("collapsed" \in DOMAIN NodeAt(display_data, q))

\* six children with the first two collapsed, and below the collapsed first
\* child five children with the first collapsed and the rest shown
C14_Witness ==
    /\ passes > 0
    /\ last_clicked_path = NoPath
    /\ Len(display_data.children) = 6
    /\ display_data.children[2].collapsed /\ ~display_data.children[3].collapsed
    /\ Len(display_data.children[1].children) = 5
    /\ display_data.children[1].children[1].collapsed
    /\ ~display_data.children[1].children[2].collapsed

-----------------------------------------------------------------------------
(* The re-click guard, the undo snapshots and the Empty state *)

\* C15: a failed expansion of p leaves the last-clicked path at p and the
\* node a leaf; a click on the last-clicked path makes no generation call
\* and changes nothing; the last-clicked path changes only by a click on a
\* different path, a goBack or a successful submitScenario, and only a click
\* on a path other than the last-clicked one calls the generator.
C15_FailedClickSuppressed ==
    [][/\ ExpandFailed(last') =>
            /\ last_clicked_path' = last'.path
            /\ needs_expansion(find_node_by_path(current_tree', last'.path))
       /\ (last'.op = "click" /\ last'.path = last_clicked_path) =>
            (api_calls' = 0 /\ UNCHANGED session)
       /\ last_clicked_path' # last_clicked_path =>
            \/ last'.op = "click" /\ last'.path # last_clicked_path
            \/ last'.op = "goBack"
            \/ SubmitOk(last')
       /\ (last'.op = "click" /\ api_calls' > 0) =>
            last'.path # last_clicked_path]_vars

\* the leaf whose expansion failed was clicked again: with one history entry
\* no expansion has succeeded since the last-clicked path was last cleared
C15_Witness ==
    /\ last.op = "click" /\ last.result = "same"
    /\ Len(history) = 1
    /\ last_clicked_path = last.path
    /\ needs_expansion(find_node_by_path(current_tree, last.path))

\* C16: every history entry is an object of its own, none of them the
\* current tree's (hist_ids numbers each entry by its own index), and a
\* successful expansion leaves the content of every earlier entry as it was.
C16_SnapshotsNotAliased ==
    /\ [](/\ Len(hist_ids) = Len(history)
          /\ \A i \in 1..Len(hist_ids) : hist_ids[i] = i)
    /\ [][ExpandOk(last') =>
            /\ Len(history') = Len(history) + 1
            /\ \A i \in 1..Len(history) : history'[i] = history[i]
            /\ history'[Len(history')] = current_tree]_vars

\* a third entry was pushed by an expansion that gave the node children: the
\* entry holds the tree before the update, the current tree the one after
C16_Witness ==
    /\ ExpandOk(last) /\ last.kids # <<>>
    /\ Len(history) = 3
    /\ history[3] # current_tree
    /\ history[2] # history[3]

\* C19: whenever there is no current tree, the history has at most one
\* entry, so goBack is unavailable.
C19_EmptyHasNoUndo == current_tree = None => ~go_back_enabled(history)

-----------------------------------------------------------------------------
(* Re-renders *)

\* C17: the run that re-renders the chart after a successful expansion, a
\* goBack or a successful submitScenario hands the old click event back, and
\* handling it makes no generation call and leaves tree and history alone.
C17_RerenderExpandsNothing ==
    [][(pending /\ (ExpandOk(last) \/ last.op = "goBack" \/ SubmitOk(last))) =>
          /\ api_calls' = 0
          /\ current_tree' = current_tree
          /\ history' = history]_vars

\* C20: whenever a tree is displayed, the stored scenario text is the text
\* whose successful submission produced that tree.
C20_ScenarioOfTree == Displaying => user_scenario = origin

-----------------------------------------------------------------------------
(* Awaiting states *)

\* C18: every Awaiting Initial or Awaiting Expansion state is eventually
\* left for Empty or Displaying, after at most 3 attempts; at most one
\* generation call is outstanding at any time; and while a handler awaits
\* its call no submit, click or goBack is taken up: the only steps are the
\* attempts of that call, and the session changes only as the call finishes.
C18_AwaitingEnds ==
    /\ Awaiting ~> (pc = "idle")
    /\ [](/\ api_n <= 3
          /\ in_flight <= 1
          /\ (pc = "idle" => in_flight = 0))
    /\ [][Awaiting =>
            /\ last'.op = (IF pc = "AwaitingInitial" THEN "submit" ELSE "click")
            /\ last'.result \in {"attempt", "retry", "ok", "failed"}
            /\ pc' \in {pc, "idle"}
            /\ (pc' # "idle" => UNCHANGED session)]_vars

\* Awaiting Expansion was left for Displaying after the third attempt raised
C18_Witness ==
    /\ pc = "idle" /\ Displaying
    /\ ExpandFailed(last)
    /\ api_n = 3 /\ api_calls = 3
    /\ in_flight = 0

====
